---- MODULE Spec2Model ----
(***************************************************************************)
(* clipdeck/api-client: the request pipeline (BaseClient) and the error    *)
(* normalisation (handleApiError).                                         *)
(*                                                                         *)
(* JavaScript values are encoded as strings so that every field of a       *)
(* record keeps one type: Undefined and Null are sentinels, any other      *)
(* string is the string itself (the empty string included, which is falsy  *)
(* for the || operator and for if (...)).                                  *)
(***************************************************************************)
EXTENDS Integers, Sequences, FiniteSets, TLC

\* ------------------------------------------------------------------ bounds
\* calls started over one behaviour
MaxCalls == 2

\* ------------------------------------------------------- JavaScript values
Undefined == "<undefined>"
Null == "<null>"

\* ToBoolean of a value of this encoding: undefined, null and '' are falsy
Truthy(v) == v \notin {Undefined, Null, ""}

\* a || b
JsOr(a, b) == IF Truthy(a) THEN a ELSE b

\* a JavaScript object with string members is a function from its keys to
\* their values (a member may hold undefined or null); a value that may be
\* undefined instead of an object carries the flag defined
NoFields == <<>>

UndefinedObject == [defined |-> FALSE, fields |-> NoFields]

Object(f) == [defined |-> TRUE, fields |-> f]

\* AxiosRequestConfig as the clients use it: undefined, or { params }
UndefinedConfig == [defined |-> FALSE, params |-> UndefinedObject]

ParamsConfig(p) == [defined |-> TRUE, params |-> p]

\* ------------------------------------------------------------- error codes
UNKNOWN_ERROR == "UNKNOWN_ERROR"
NETWORK_ERROR == "NETWORK_ERROR"
CLIENT_ERROR == "CLIENT_ERROR"

UnknownErrorMessage == "Unknown error"
NetworkErrorMessage == "Network error - unable to reach server"
UnknownValueMessage == "An unknown error occurred"

\* ------------------------------------------------- the values a catch sees
\* kind: what was thrown (an object, a string, null, undefined);
\* isAxiosError: the answer of axios.isAxiosError(error);
\* instanceOfError: error instanceof Error;
\* response / request: error.response / error.request is set;
\* status: error.response.status; data: the shape of error.response.data
\*   ("undefined", "null", "text": a non-JSON body, "empty": {}, "errorNull":
\*   {error: null}, "envelope": {error: {code, message, details}});
\* code, envMessage, details: the fields of data.error;
\* message: error.message.
Statuses == {400, 404, 500}
Codes == {Undefined, "", "NOT_FOUND", "VALIDATION_ERROR"}
EnvMessages == {Undefined, "", "Campaign not found"}
Details == {Undefined, "campaignId=abc"}
Messages == {Undefined, "", "Request failed"}

NoResponse ==
  [response |-> FALSE, status |-> 0, data |-> "undefined",
   code |-> Undefined, envMessage |-> Undefined, details |-> Undefined]

BareResponses ==
  [response : {TRUE}, status : Statuses,
   data : {"undefined", "null", "text", "empty", "errorNull"},
   code : {Undefined}, envMessage : {Undefined}, details : {Undefined}]

EnvelopeResponses ==
  [response : {TRUE}, status : Statuses, data : {"envelope"},
   code : Codes, envMessage : EnvMessages, details : Details]

ResponseParts == {NoResponse} \cup BareResponses \cup EnvelopeResponses

Thrown(kind, isAxios, isError, request, message, r) ==
  [kind |-> kind, isAxiosError |-> isAxios, instanceOfError |-> isError,
   request |-> request, message |-> message,
   response |-> r.response, status |-> r.status, data |-> r.data,
   code |-> r.code, envMessage |-> r.envMessage, details |-> r.details]

\* a thrown string, null or undefined has no property at all
Primitives ==
  {Thrown(k, FALSE, FALSE, FALSE, Undefined, NoResponse) :
     k \in {"string", "null", "undefined"}}

\* an Error instance always has a message (Error.prototype.message is '')
ObjectValues ==
  {Thrown("object", a, e, q, m, r) :
     a \in BOOLEAN, e \in BOOLEAN, q \in BOOLEAN, m \in Messages,
     r \in ResponseParts}

CaughtValues ==
  Primitives \cup {v \in ObjectValues : v.instanceOfError => v.message # Undefined}

\* ------------------------------------------------------------ ApiError
NoError ==
  [kind |-> "none", code |-> Undefined, message |-> Undefined, status |-> 0,
   details |-> Undefined]

\* new ApiError(code, message, status, details): super(message) leaves the
\* message '' when the argument is undefined
ApiError(code, message, status, details) ==
  [kind |-> "ApiError", code |-> code,
   message |-> IF message = Undefined THEN "" ELSE message,
   status |-> status, details |-> details]

\* a caught value that is thrown on as it is
NativeError(error) ==
  [kind |-> "native", code |-> Undefined, message |-> error.message,
   status |-> 0, details |-> Undefined]

\* data?.error?.<field>: undefined unless data is an object whose error is an
\* object
EnvelopeField(error, value) ==
  IF error.data = "envelope" THEN value ELSE Undefined

\* ResponseError with the transport's message left out of the message chain
ResponseErrorNoTransportMessage(error) ==
  ApiError(JsOr(EnvelopeField(error, error.code), UNKNOWN_ERROR),
           JsOr(EnvelopeField(error, error.envMessage), UnknownErrorMessage),
           error.status,
           EnvelopeField(error, error.details))

\* first branch: the failure carries a response
ResponseError(error) ==
  ApiError(JsOr(EnvelopeField(error, error.code), UNKNOWN_ERROR),
           JsOr(EnvelopeField(error, error.envMessage),
                JsOr(error.message, UnknownErrorMessage)),
           error.status,
           EnvelopeField(error, error.details))

\* NetworkError passing the transport's message on
NetworkErrorTransportMessage(error) ==
  ApiError(NETWORK_ERROR, JsOr(error.message, NetworkErrorMessage), 0, Undefined)

\* second branch: a request was made and nothing came back
NetworkError(error) == ApiError(NETWORK_ERROR, NetworkErrorMessage, 0, Undefined)

\* ClientError with a fixed message
ClientErrorFixedMessage(error) ==
  ApiError(CLIENT_ERROR, UnknownValueMessage, 0, Undefined)

\* third branch: any other Error
ClientError(error) == ApiError(CLIENT_ERROR, error.message, 0, Undefined)

\* UnknownError reported as a client error
UnknownErrorAsClient(error) ==
  ApiError(CLIENT_ERROR, UnknownValueMessage, 0, Undefined)

\* last branch
UnknownError(error) == ApiError(UNKNOWN_ERROR, UnknownValueMessage, 0, Undefined)

\* handleApiError whose last branch throws the value on
handleApiErrorRethrow(error) ==
  IF error.isAxiosError /\ error.response THEN ResponseError(error)
  ELSE IF error.isAxiosError /\ error.request THEN NetworkError(error)
  ELSE IF error.instanceOfError THEN ClientError(error)
  ELSE NativeError(error)

\* handleApiError that looks at the request before the response
handleApiErrorRequestFirst(error) ==
  IF error.isAxiosError /\ error.request THEN NetworkError(error)
  ELSE IF error.isAxiosError /\ error.response THEN ResponseError(error)
  ELSE IF error.instanceOfError THEN ClientError(error)
  ELSE UnknownError(error)

handleApiError(error) ==
  IF error.isAxiosError /\ error.response THEN ResponseError(error)
  ELSE IF error.isAxiosError /\ error.request THEN NetworkError(error)
  ELSE IF error.instanceOfError THEN ClientError(error)
  ELSE UnknownError(error)


\* ---------------------------------------------------------- configuration
\* ClientConfig: getToken is TRUE when the caller supplied a token-getter;
\* timeout is NoTimeout when the caller supplied none
NoTimeout == -1
DefaultTimeout == 10000
BaseURLs == {"https://api.clipdeck.io"}
TimeoutInputs == {NoTimeout}
ConfigInputs == [baseURL : BaseURLs, getToken : BOOLEAN, timeout : TimeoutInputs]

\* what the token-getter can yield: null, or a string (the empty one included)
Tokens == {Null, "", "tok_a", "tok_b"}

\* ------------------------------------------------------------ the calls
CallIds == {"c1", "c2"}
Urls == {"/campaigns", "/campaigns/camp_1"}
\* the paths the calls with a body and the deletions are made with
ItemUrls == {"/campaigns/camp_1"}
Bodies == {Object("title" :> "X")}
RequestConfigs == {UndefinedConfig, ParamsConfig(Object("page" :> "1"))}

\* a decoded response body: none, a record, or the paginated envelope
\* { data, total, page, limit, totalPages }
NoBody ==
  [kind |-> "undefined", data |-> Undefined, total |-> 0, page |-> 0,
   limit |-> 0, totalPages |-> 0]

RecordBody(data) ==
  [kind |-> "record", data |-> data, total |-> 0, page |-> 0, limit |-> 0,
   totalPages |-> 0]

Paginated(data, total, page, limit, totalPages) ==
  [kind |-> "paginated", data |-> data, total |-> total, page |-> page,
   limit |-> limit, totalPages |-> totalPages]

ResponseBodies == {RecordBody("data_1"), RecordBody("data_2")}

NoCaught == Thrown("undefined", FALSE, FALSE, FALSE, Undefined, NoResponse)

\* the transport's successful response: status and decoded body
AxiosResponse(status, data) == [status |-> status, data |-> data]

NoAxiosResponse == AxiosResponse(0, NoBody)

\* op, argUrl, argData, argConfig: the verb operation called and its
\* arguments; verb, url, data, config: what this.http.<verb> was given;
\* getterRejected, rejection: whether the token-getter's promise rejected
\* for the call, and with what value;
\* issued: how often this.http.<verb> was called for the call; sent: how often
\* the request went on the wire; response: what the transport answered;
\* wireBody, wireQuery: the body and the query string as serialized;
\* result: what the verb operation returned
IdleCall ==
  [pc |-> "idle",
   op |-> "none", argUrl |-> Undefined, argData |-> UndefinedObject,
   argConfig |-> UndefinedConfig,
   verb |-> "none", url |-> Undefined, data |-> UndefinedObject,
   config |-> UndefinedConfig,
   authorization |-> Undefined, token |-> Undefined, getterCount |-> 0,
   getterRejected |-> FALSE, rejection |-> NoCaught,
   issued |-> 0, sent |-> 0, timedOut |-> FALSE,
   wireBody |-> UndefinedObject, wireQuery |-> UndefinedObject,
   response |-> NoAxiosResponse, result |-> NoBody, error |-> NoError]

\* a resource-client method called with its arguments (id: the path
\* parameter, data: the object argument, arg1 and arg2: further arguments);
\* returns: whether the method returns the verb operation's result
\* (return this.<verb>(...)) or only awaits it (await this.<verb>(...))
NoInvocation ==
  [method |-> "none", id |-> Undefined, data |-> UndefinedObject,
   arg1 |-> Undefined, arg2 |-> Undefined, returns |-> FALSE]

\* a timeout error that carries no request
TimeoutErrorNoRequest ==
  Thrown("object", TRUE, TRUE, FALSE, "timeout exceeded", NoResponse)

\* the error of a request that got no response within the timeout: a
\* transport error with the request that was made and no response
TimeoutError ==
  Thrown("object", TRUE, TRUE, TRUE, "timeout exceeded", NoResponse)

\* failures the transport reports for a request that left the process
WireFailures ==
  {v \in CaughtValues :
     /\ v.isAxiosError /\ v.instanceOfError /\ v.request
     /\ v.message = "Request failed"
     /\ v.response =>
          /\ v.status = 404 /\ v.data = "envelope" /\ v.code = "NOT_FOUND"
          /\ v.envMessage = "Campaign not found" /\ v.details = Undefined}

\* failures raised while the request is prepared, before anything is sent
LocalFailures ==
  {v \in CaughtValues :
     /\ v.isAxiosError /\ v.instanceOfError /\ ~v.request /\ ~v.response
     /\ v.message = "Request failed"}

\* what a rejected token-getter promise carries: an Error, any other value,
\* or the transport error of a request the getter made itself (a token
\* refresh that was answered with an error status)
GetterRejections ==
  {v \in CaughtValues :
     /\ ~v.isAxiosError /\ ~v.request /\ ~v.response
     /\ v.kind \in {"object", "string"}
     /\ v.kind = "object" => (v.instanceOfError /\ v.message = "Request failed")}
  \cup {v \in WireFailures : v.response}

VARIABLES
  clients,           \* the resource clients of a ClipdeckClient, by field
  config,            \* the ClientConfig the client was constructed from
  invocation,        \* per call slot: the resource-client method called
  http,              \* the axios instance: timeout and registered interceptors
  token,             \* what the caller's token store holds now
  calls,             \* per call slot: position and data of the call
  started,           \* calls started so far
  getterInvocations, \* invocations of config.getToken so far
  requestsSent,      \* requests transmitted so far
  failedBeforeSend,  \* calls that failed with nothing transmitted, so far
  caught,            \* the value handed to handleApiError
  apiError           \* what handleApiError returned for caught

vars ==
  <<clients, config, invocation, http, token, calls, started, getterInvocations,
    requestsSent, failedBeforeSend, caught, apiError>>

\* the fields of ClipdeckClient and the class of each
ClientClasses ==
  [campaigns |-> "CampaignClient", clips |-> "ClipClient",
   users |-> "UserClient", notifications |-> "NotificationClient",
   balance |-> "BalanceClient", studios |-> "StudioClient",
   disputes |-> "DisputeClient"]

\* no ClipdeckClient constructed
NoClients == <<>>

\* no client constructed yet
NoConfig == [baseURL |-> Undefined, getToken |-> FALSE, timeout |-> NoTimeout]

NotConstructed ==
  [baseURL |-> Undefined, timeout |-> 0, getToken |-> FALSE,
   requestInterceptors |-> 0, responseInterceptors |-> 0]


\* BaseClient constructor: axios.create, the request interceptor when a
\* token-getter is configured, the response interceptor always
\* the request interceptor registered whatever the configuration
RequestInterceptorsAlways(cfg) == 1

RequestInterceptors(cfg) == IF cfg.getToken THEN 1 ELSE 0

Constructor(cfg) ==
  [baseURL |-> cfg.baseURL,
   timeout |-> IF cfg.timeout = NoTimeout \/ cfg.timeout = 0
               THEN DefaultTimeout ELSE cfg.timeout,
   getToken |-> cfg.getToken,
   requestInterceptors |-> RequestInterceptors(cfg),
   responseInterceptors |-> 1]

\* AuthHeader testing the token against null only
AuthHeaderNonNull(authorization, tok) ==
  IF tok # Null THEN "Bearer " \o tok ELSE authorization

\* request interceptor, after await getToken(): if (token) set Authorization
AuthHeader(authorization, tok) ==
  IF Truthy(tok) THEN "Bearer " \o tok ELSE authorization

\* rejected handler that throws the transport's error on
ResponseRejectedNative(error) == NativeError(error)

\* fulfilled handler that replaces the body of the response
ResponseFulfilledEnvelope(response) ==
  [response EXCEPT !.data = RecordBody("envelope")]

\* response interceptor, fulfilled handler: (response) => response
ResponseFulfilled(response) == response

\* response interceptor, rejected handler: throw handleApiError(error)
ResponseRejected(error) == handleApiError(error)

\* the arguments of a verb operation of BaseClient
VerbArgs(op, url, data, cfg) ==
  [op |-> op, url |-> url, data |-> data, config |-> cfg]

\* what this.http.<verb> is called with
Handed(verb, url, data, cfg) ==
  [verb |-> verb, url |-> url, data |-> data, config |-> cfg]

\* Request answering a get from a cache once a request has been sent
RequestFromCache(c, args, handed) ==
  /\ http # NotConstructed
  /\ calls[c].pc = "idle"
  /\ started < MaxCalls
  /\ calls' = [calls EXCEPT ![c] =
       IF requestsSent > 0 /\ args.op = "get"
       THEN [IdleCall EXCEPT
               !.pc = "resolved",
               !.op = args.op, !.argUrl = args.url, !.argData = args.data,
               !.argConfig = args.config,
               !.response = AxiosResponse(200, RecordBody("data_1")),
               !.result = RecordBody("data_1")]
       ELSE [IdleCall EXCEPT
               !.pc = IF http.requestInterceptors > 0 THEN "hook" ELSE "dispatch",
               !.op = args.op, !.argUrl = args.url, !.argData = args.data,
               !.argConfig = args.config,
               !.verb = handed.verb, !.url = handed.url, !.data = handed.data,
               !.config = handed.config,
               !.issued = 1]]
  /\ started' = started + 1
  /\ UNCHANGED <<clients, config, http, token, getterInvocations, requestsSent,
               failedBeforeSend, caught, apiError>>

\* await this.http.<verb>(...): the call is handed to the transport once,
\* which runs the request interceptors first
Request(c, args, handed) ==
  /\ http # NotConstructed
  /\ calls[c].pc = "idle"
  /\ started < MaxCalls
  /\ calls' = [calls EXCEPT ![c] =
       [IdleCall EXCEPT
          !.pc = IF http.requestInterceptors > 0 THEN "hook" ELSE "dispatch",
          !.op = args.op, !.argUrl = args.url, !.argData = args.data,
          !.argConfig = args.config,
          !.verb = handed.verb, !.url = handed.url, !.data = handed.data,
          !.config = handed.config,
          !.issued = 1]]
  /\ started' = started + 1
  /\ UNCHANGED <<clients, config, http, token, getterInvocations, requestsSent,
               failedBeforeSend, caught, apiError>>

get(c, url, cfg) ==
  Request(c, VerbArgs("get", url, UndefinedObject, cfg),
          Handed("GET", url, UndefinedObject, cfg))

post(c, url, data, cfg) ==
  Request(c, VerbArgs("post", url, data, cfg), Handed("POST", url, data, cfg))

put(c, url, data, cfg) ==
  Request(c, VerbArgs("put", url, data, cfg), Handed("PUT", url, data, cfg))

patch(c, url, data, cfg) ==
  Request(c, VerbArgs("patch", url, data, cfg), Handed("PATCH", url, data, cfg))

delete(c, url, cfg) ==
  Request(c, VerbArgs("delete", url, UndefinedObject, cfg),
          Handed("DELETE", url, UndefinedObject, cfg))

\* InvokeGetter calling the getter twice (once to test, once to use)
InvokeGetterTwice(c) ==
  /\ calls[c].pc = "hook"
  /\ calls' = [calls EXCEPT ![c].pc = "awaitToken",
                            ![c].getterCount = @ + 2]
  /\ getterInvocations' = getterInvocations + 2
  /\ UNCHANGED <<clients, config, invocation, http, token, started, requestsSent, failedBeforeSend, caught, apiError>>

\* request interceptor: const token = await getToken() -- the invocation
InvokeGetter(c) ==
  /\ calls[c].pc = "hook"
  /\ calls' = [calls EXCEPT ![c].pc = "awaitToken",
                            ![c].getterCount = @ + 1]
  /\ getterInvocations' = getterInvocations + 1
  /\ UNCHANGED <<clients, config, invocation, http, token, started, requestsSent, failedBeforeSend, caught, apiError>>

\* GetterResolve writing the header into the defaults all requests share
GetterResolveShared(c) ==
  /\ calls[c].pc = "awaitToken"
  /\ calls' = [d \in CallIds |->
       IF d = c
       THEN [calls[d] EXCEPT !.pc = "dispatch", !.token = token,
                             !.authorization = AuthHeader(@, token)]
       ELSE IF calls[d].pc = "dispatch"
            THEN [calls[d] EXCEPT !.authorization = AuthHeader(@, token)]
            ELSE calls[d]]
  /\ UNCHANGED <<clients, config, invocation, http, token, started,
               getterInvocations, requestsSent, failedBeforeSend, caught,
               apiError>>

\* the getter's promise resolves with what the token store holds
GetterResolve(c) ==
  /\ calls[c].pc = "awaitToken"
  /\ calls' = [calls EXCEPT ![c].pc = "dispatch",
                            ![c].token = token,
                            ![c].authorization = AuthHeader(@, token)]
  /\ UNCHANGED <<clients, config, invocation, http, token, started, getterInvocations, requestsSent,
               failedBeforeSend, caught, apiError>>

\* GetterReject throwing the getter's rejection value on as it is
GetterRejectRaw(c, error) ==
  /\ calls[c].pc = "awaitToken"
  /\ calls' = [calls EXCEPT ![c].pc = "rejected",
                            ![c].getterRejected = TRUE,
                            ![c].rejection = error,
                            ![c].error = NativeError(error)]
  /\ failedBeforeSend' = failedBeforeSend + 1
  /\ UNCHANGED <<clients, config, invocation, http, token, started, getterInvocations,
               requestsSent, caught, apiError>>

\* the getter's promise rejects: the rejection runs down the interceptor
\* chain to the response interceptor's rejected handler
GetterReject(c, error) ==
  /\ calls[c].pc = "awaitToken"
  /\ calls' = [calls EXCEPT ![c].pc = "rejected",
                            ![c].getterRejected = TRUE,
                            ![c].rejection = error,
                            ![c].error = ResponseRejected(error)]
  /\ failedBeforeSend' = failedBeforeSend + 1
  /\ UNCHANGED <<clients, config, invocation, http, token, started, getterInvocations, requestsSent, caught, apiError>>

\* the members of an object that JSON serialization keeps: a member whose
\* value is undefined is left out, a null member is kept
DropUndefined(f) == [k \in {x \in DOMAIN f : f[x] # Undefined} |-> f[k]]

\* the members the query-string serialization keeps: neither undefined nor null
DropNullish(f) == [k \in {x \in DOMAIN f : f[x] \notin {Undefined, Null}} |-> f[k]]

\* the request body on the wire (Content-Type: application/json)
WireBody(data) ==
  IF data.defined THEN Object(DropUndefined(data.fields)) ELSE UndefinedObject

\* the query string on the wire, built from config.params
WireQuery(cfg) ==
  IF cfg.defined /\ cfg.params.defined
  THEN Object(DropNullish(cfg.params.fields))
  ELSE UndefinedObject

\* Transmit not waiting for the token-getter to complete
TransmitWithoutAwait(c) ==
  /\ calls[c].pc \in {"awaitToken", "dispatch"}
  /\ calls' = [calls EXCEPT ![c].pc = "inflight", ![c].sent = @ + 1]
  /\ requestsSent' = requestsSent + 1
  /\ UNCHANGED <<clients, config, invocation, http, token, started, getterInvocations,
               failedBeforeSend, caught, apiError>>

\* the transport puts the request on the wire
Transmit(c) ==
  /\ calls[c].pc = "dispatch"
  /\ calls' = [calls EXCEPT ![c].pc = "inflight", ![c].sent = @ + 1,
                            ![c].wireBody = WireBody(calls[c].data),
                            ![c].wireQuery = WireQuery(calls[c].config)]
  /\ requestsSent' = requestsSent + 1
  /\ UNCHANGED <<clients, config, invocation, http, token, started, getterInvocations, failedBeforeSend, caught,
               apiError>>

\* the transport fails before the request leaves the process
DispatchFail(c, error) ==
  /\ calls[c].pc = "dispatch"
  /\ calls' = [calls EXCEPT ![c].pc = "rejected",
                            ![c].error = ResponseRejected(error)]
  /\ failedBeforeSend' = failedBeforeSend + 1
  /\ UNCHANGED <<clients, config, invocation, http, token, started, getterInvocations, requestsSent, caught, apiError>>

\* Respond that holds the second call's response back while the first call
\* is in flight
RespondInOrder(c, body) ==
  /\ calls[c].pc = "inflight"
  /\ c = "c2" => calls["c1"].pc # "inflight"
  /\ calls' = [calls EXCEPT
       ![c].pc = "resolved",
       ![c].response = AxiosResponse(200, body),
       ![c].result = ResponseFulfilled(AxiosResponse(200, body)).data]
  /\ UNCHANGED <<clients, config, invocation, http, token, started,
               getterInvocations, requestsSent, failedBeforeSend, caught,
               apiError>>

\* a successful response: (response) => response, then return response.data
Respond(c, body) ==
  /\ calls[c].pc = "inflight"
  /\ calls' = [calls EXCEPT
       ![c].pc = "resolved",
       ![c].response = AxiosResponse(200, body),
       ![c].result = ResponseFulfilled(AxiosResponse(200, body)).data]
  /\ UNCHANGED <<clients, config, invocation, http, token, started, getterInvocations, requestsSent,
               failedBeforeSend, caught, apiError>>

\* Fail that issues the request again
FailRetry(c, error) ==
  /\ calls[c].pc = "inflight"
  /\ calls' = [calls EXCEPT ![c].pc = "dispatch", ![c].issued = @ + 1]
  /\ UNCHANGED <<clients, config, invocation, http, token, started, getterInvocations,
               requestsSent, failedBeforeSend, caught, apiError>>

\* an error response, or no response at all (connection failure, timeout)
Fail(c, error) ==
  /\ calls[c].pc = "inflight"
  /\ calls' = [calls EXCEPT ![c].pc = "rejected",
                            ![c].error = ResponseRejected(error)]
  /\ UNCHANGED <<clients, config, invocation, http, token, started, getterInvocations, requestsSent,
               failedBeforeSend, caught, apiError>>

\* Timeout that also covers the time spent in the token-getter
TimeoutWhileAwaiting(c) ==
  /\ calls[c].pc \in {"awaitToken", "inflight"}
  /\ http.timeout > 0
  /\ calls' = [calls EXCEPT ![c].pc = "rejected",
                            ![c].timedOut = TRUE,
                            ![c].error = ResponseRejected(TimeoutError)]
  /\ UNCHANGED <<clients, config, invocation, http, token, started,
               getterInvocations, requestsSent, failedBeforeSend, caught,
               apiError>>

\* no response within http.timeout (0 would mean no timeout): the transport
\* gives up with an error that has a request and no response
Timeout(c) ==
  /\ calls[c].pc = "inflight"
  /\ http.timeout > 0
  /\ calls' = [calls EXCEPT ![c].pc = "rejected",
                            ![c].timedOut = TRUE,
                            ![c].error = ResponseRejected(TimeoutError)]
  /\ UNCHANGED <<clients, config, invocation, http, token, started, getterInvocations,
               requestsSent, failedBeforeSend, caught, apiError>>

\* the caller has taken the outcome; the slot is free for its next call
Return(c) ==
  /\ calls[c].pc \in {"resolved", "rejected"}
  /\ calls' = [calls EXCEPT ![c] = IdleCall]
  /\ invocation' = [invocation EXCEPT ![c] = NoInvocation]
  /\ UNCHANGED <<clients, config, http, token, started, getterInvocations, requestsSent,
               failedBeforeSend, caught, apiError>>

\* the caller's token store changes (login, logout, refresh)
RotateToken(t) ==
  /\ t # token
  /\ token' = t
  /\ UNCHANGED <<clients, config, invocation, http, calls, started, getterInvocations, requestsSent,
               failedBeforeSend, caught, apiError>>

Init ==
  /\ clients = NoClients
  /\ config \in ConfigInputs
  /\ http = Constructor(config)
  /\ invocation = [c \in CallIds |-> NoInvocation]
  /\ token \in Tokens
  /\ calls = [c \in CallIds |-> IdleCall]
  /\ started = 0
  /\ getterInvocations = 0
  /\ requestsSent = 0
  /\ failedBeforeSend = 0
  /\ caught = NoCaught
  /\ apiError = NoError

Next ==
  \/ \E c \in CallIds, url \in Urls, cfg \in RequestConfigs :
       get(c, url, cfg) /\ UNCHANGED invocation
  \/ \E c \in CallIds, url \in ItemUrls, data \in Bodies :
       post(c, url, data, UndefinedConfig) /\ UNCHANGED invocation
  \/ \E c \in CallIds, url \in ItemUrls, data \in Bodies :
       put(c, url, data, UndefinedConfig) /\ UNCHANGED invocation
  \/ \E c \in CallIds, url \in ItemUrls, data \in Bodies :
       patch(c, url, data, UndefinedConfig) /\ UNCHANGED invocation
  \/ \E c \in CallIds, url \in ItemUrls :
       delete(c, url, UndefinedConfig) /\ UNCHANGED invocation
  \/ \E c \in CallIds : InvokeGetter(c)
  \/ \E c \in CallIds : GetterResolve(c)
  \/ \E c \in CallIds, error \in GetterRejections : GetterReject(c, error)
  \/ \E c \in CallIds : Transmit(c)
  \/ \E c \in CallIds, error \in LocalFailures : DispatchFail(c, error)
  \/ \E c \in CallIds, body \in ResponseBodies : Respond(c, body)
  \/ \E c \in CallIds, error \in WireFailures : Fail(c, error)
  \/ \E c \in CallIds : Timeout(c)
  \/ \E c \in CallIds : Return(c)
  \/ \E t \in Tokens : RotateToken(t)

Spec == Init /\ [][Next]_vars

\* ------------------------------------------------------ resource clients
\* the arguments the resource-client methods are called with
Ids == {"camp_1", ""}
OptionalIds == Ids \cup {Undefined}
Fields == {"title", "description"}
PartialUpdates == {Object(f) : f \in UNION {[S -> {"X"}] : S \in SUBSET Fields}}
Filters == {UndefinedObject, Object("status" :> "active")}
CreateDatas == {Object(("title" :> "X") @@ ("description" :> "X"))}
StatusValues == {"active"}
OptionalValues == {Undefined, "text"}
ConstructInputs ==
  [baseURL : BaseURLs \cup {Undefined}, getToken : BOOLEAN,
   timeout : {NoTimeout, 0, 5000}]
MethodSlots == {"c1"}
PathIds == {"user_1", "me", "invites", "a/b"}
MethodResponseBodies ==
  {RecordBody("data_1"), Paginated("items_1", 41, 1, 20, 3),
   Paginated("items_1", 41, 1, 20, 7)}
MethodTokens == {Null, "tok_a"}

\* new XClient(config): every client class runs BaseClient's constructor
Construct(cfg) ==
  /\ http = NotConstructed
  /\ config' = cfg
  /\ http' = Constructor(cfg)
  /\ UNCHANGED <<clients, invocation, token, calls, started, getterInvocations,
               requestsSent, failedBeforeSend, caught, apiError>>

\* a method of a resource client is called with these arguments
Invoke(c, method, id, data, arg1, arg2) ==
  invocation' = [invocation EXCEPT ![c] =
    [method |-> method, id |-> id, data |-> data, arg1 |-> arg1, arg2 |-> arg2,
     returns |-> TRUE]]

\* a method whose body is await this.<verb>(...), with no return statement
InvokeAwait(c, method, id) ==
  invocation' = [invocation EXCEPT ![c] =
    [method |-> method, id |-> id, data |-> UndefinedObject,
     arg1 |-> Undefined, arg2 |-> Undefined, returns |-> FALSE]]

\* a method result with totalPages computed from total and limit
MethodResultRecomputed(c) ==
  IF invocation[c].returns
  THEN IF calls[c].result.kind = "paginated"
       THEN [calls[c].result EXCEPT
               !.totalPages = (calls[c].result.total + calls[c].result.limit - 1)
                              \div calls[c].result.limit]
       ELSE calls[c].result
  ELSE NoBody

\* what the method's promise resolves with once the verb operation has
\* returned: the operation's result, or undefined
MethodResult(c) ==
  IF invocation[c].returns THEN calls[c].result ELSE NoBody

CampaignClient_list(c, filters) ==
  /\ get(c, "/campaigns", ParamsConfig(filters))
  /\ Invoke(c, "campaigns.list", Undefined, filters, Undefined, Undefined)

CampaignClient_getById(c, id) ==
  /\ get(c, "/campaigns/" \o id, UndefinedConfig)
  /\ Invoke(c, "campaigns.getById", id, UndefinedObject, Undefined, Undefined)

CampaignClient_create(c, data) ==
  /\ post(c, "/campaigns", data, UndefinedConfig)
  /\ Invoke(c, "campaigns.create", Undefined, data, Undefined, Undefined)

\* update that sends every field, null for the ones not supplied
CampaignClient_updateAllFields(c, id, data) ==
  /\ patch(c, "/campaigns/" \o id,
           Object([k \in Fields |->
                    IF k \in DOMAIN data.fields THEN data.fields[k] ELSE Null]),
           UndefinedConfig)
  /\ Invoke(c, "campaigns.update", id, data, Undefined, Undefined)

CampaignClient_update(c, id, data) ==
  /\ patch(c, "/campaigns/" \o id, data, UndefinedConfig)
  /\ Invoke(c, "campaigns.update", id, data, Undefined, Undefined)

CampaignClient_join(c, id) ==
  /\ post(c, "/campaigns/" \o id \o "/join", UndefinedObject, UndefinedConfig)
  /\ Invoke(c, "campaigns.join", id, UndefinedObject, Undefined, Undefined)

\* leave posting to the join route
CampaignClient_leaveAsJoin(c, id) ==
  /\ post(c, "/campaigns/" \o id \o "/join", UndefinedObject, UndefinedConfig)
  /\ Invoke(c, "campaigns.leave", id, UndefinedObject, Undefined, Undefined)

CampaignClient_leave(c, id) ==
  /\ post(c, "/campaigns/" \o id \o "/leave", UndefinedObject, UndefinedConfig)
  /\ Invoke(c, "campaigns.leave", id, UndefinedObject, Undefined, Undefined)

CampaignClient_getParticipants(c, id) ==
  /\ get(c, "/campaigns/" \o id \o "/participants", UndefinedConfig)
  /\ Invoke(c, "campaigns.getParticipants", id, UndefinedObject, Undefined,
            Undefined)

CampaignClient_updateStatus(c, id, status) ==
  /\ patch(c, "/campaigns/" \o id \o "/status", Object("status" :> status),
           UndefinedConfig)
  /\ Invoke(c, "campaigns.updateStatus", id, UndefinedObject, status, Undefined)

\* if (id) ... : undefined and the empty string both take the second route
NotificationClient_markAsRead(c, id) ==
  /\ IF Truthy(id)
     THEN patch(c, "/notifications/" \o id \o "/read", UndefinedObject,
                UndefinedConfig)
     ELSE patch(c, "/notifications/read", UndefinedObject, UndefinedConfig)
  /\ Invoke(c, "notifications.markAsRead", id, UndefinedObject, Undefined,
            Undefined)

StudioClient_update(c, slug, data) ==
  /\ patch(c, "/studios/" \o slug, data, UndefinedConfig)
  /\ Invoke(c, "studios.update", slug, data, Undefined, Undefined)

UserClient_updateMe(c, data) ==
  /\ patch(c, "/users/me", data, UndefinedConfig)
  /\ Invoke(c, "users.updateMe", Undefined, data, Undefined, Undefined)

UserClient_updateProfile(c, data) ==
  /\ patch(c, "/users/me/profile", data, UndefinedConfig)
  /\ Invoke(c, "users.updateProfile", Undefined, data, Undefined, Undefined)

\* updateStatus that sends null for a reason that was not supplied
ClipClient_updateStatusNullReason(c, id, status, reason) ==
  /\ patch(c, "/clips/" \o id \o "/status",
           Object(("status" :> status) @@
                  ("reason" :> IF reason = Undefined THEN Null ELSE reason)),
           UndefinedConfig)
  /\ Invoke(c, "clips.updateStatus", id, UndefinedObject, status, reason)

\* { status, reason }: the member reason is there even when reason is undefined
ClipClient_updateStatus(c, id, status, reason) ==
  /\ patch(c, "/clips/" \o id \o "/status",
           Object(("status" :> status) @@ ("reason" :> reason)),
           UndefinedConfig)
  /\ Invoke(c, "clips.updateStatus", id, UndefinedObject, status, reason)

StudioClient_rate(c, slug, rating, review) ==
  /\ post(c, "/studios/" \o slug \o "/rate",
          Object(("rating" :> rating) @@ ("review" :> review)),
          UndefinedConfig)
  /\ Invoke(c, "studios.rate", slug, UndefinedObject, rating, review)

DisputeClient_resolve(c, id, action, notes) ==
  /\ post(c, "/disputes/" \o id \o "/resolve",
          Object(("action" :> action) @@ ("notes" :> notes)),
          UndefinedConfig)
  /\ Invoke(c, "disputes.resolve", id, UndefinedObject, action, notes)

UserClient_search(c, query, limit) ==
  /\ get(c, "/users/search",
         ParamsConfig(Object(("query" :> query) @@ ("limit" :> limit))))
  /\ Invoke(c, "users.search", Undefined, UndefinedObject, query, limit)

ClipClient_list(c, filters) ==
  /\ get(c, "/clips", ParamsConfig(filters))
  /\ Invoke(c, "clips.list", Undefined, filters, Undefined, Undefined)

StudioClient_list(c, filters) ==
  /\ get(c, "/studios", ParamsConfig(filters))
  /\ Invoke(c, "studios.list", Undefined, filters, Undefined, Undefined)

NotificationClient_list(c, params) ==
  /\ get(c, "/notifications", ParamsConfig(params))
  /\ Invoke(c, "notifications.list", Undefined, params, Undefined, Undefined)

BalanceClient_getTransactions(c, params) ==
  /\ get(c, "/balance/transactions", ParamsConfig(params))
  /\ Invoke(c, "balance.getTransactions", Undefined, params, Undefined,
            Undefined)

DisputeClient_list(c, filters) ==
  /\ get(c, "/disputes", ParamsConfig(filters))
  /\ Invoke(c, "disputes.list", Undefined, filters, Undefined, Undefined)

StudioClient_remove(c, slug) ==
  /\ delete(c, "/studios/" \o slug, UndefinedConfig)
  /\ InvokeAwait(c, "studios.remove", slug)

StudioClient_leave(c, slug) ==
  /\ post(c, "/studios/" \o slug \o "/leave", UndefinedObject, UndefinedConfig)
  /\ Invoke(c, "studios.leave", slug, UndefinedObject, Undefined, Undefined)

NotificationClient_markAllAsRead(c) ==
  /\ patch(c, "/notifications/read-all", UndefinedObject, UndefinedConfig)
  /\ Invoke(c, "notifications.markAllAsRead", Undefined, UndefinedObject,
            Undefined, Undefined)

NotificationClient_remove(c, id) ==
  /\ delete(c, "/notifications/" \o id, UndefinedConfig)
  /\ InvokeAwait(c, "notifications.remove", id)

UserClient_getMe(c) ==
  /\ get(c, "/users/me", UndefinedConfig)
  /\ Invoke(c, "users.getMe", Undefined, UndefinedObject, Undefined, Undefined)

\* getById that escapes the identifier (encodeURIComponent)
UserClient_getByIdEscaped(c, id) ==
  /\ get(c, "/users/" \o (IF id = "a/b" THEN "a%2Fb" ELSE id), UndefinedConfig)
  /\ Invoke(c, "users.getById", id, UndefinedObject, Undefined, Undefined)

UserClient_getById(c, id) ==
  /\ get(c, "/users/" \o id, UndefinedConfig)
  /\ Invoke(c, "users.getById", id, UndefinedObject, Undefined, Undefined)

StudioClient_getBySlug(c, slug) ==
  /\ get(c, "/studios/" \o slug, UndefinedConfig)
  /\ Invoke(c, "studios.getBySlug", slug, UndefinedObject, Undefined, Undefined)

StudioClient_getInvites(c) ==
  /\ get(c, "/studios/invites", UndefinedConfig)
  /\ Invoke(c, "studios.getInvites", Undefined, UndefinedObject, Undefined,
            Undefined)

InitMethods ==
  /\ clients = NoClients
  /\ config = NoConfig
  /\ http = NotConstructed
  /\ invocation = [c \in CallIds |-> NoInvocation]
  /\ token \in MethodTokens
  /\ calls = [c \in CallIds |-> IdleCall]
  /\ started = 0
  /\ getterInvocations = 0
  /\ requestsSent = 0
  /\ failedBeforeSend = 0
  /\ caught = NoCaught
  /\ apiError = NoError

NextMethods ==
  \/ \E cfg \in ConstructInputs : Construct(cfg)
  \/ \E c \in MethodSlots, filters \in Filters : CampaignClient_list(c, filters)
  \/ \E c \in MethodSlots, id \in Ids : CampaignClient_getById(c, id)
  \/ \E c \in MethodSlots, data \in CreateDatas : CampaignClient_create(c, data)
  \/ \E c \in MethodSlots, id \in Ids, data \in PartialUpdates :
       CampaignClient_update(c, id, data)
  \/ \E c \in MethodSlots, id \in Ids : CampaignClient_join(c, id)
  \/ \E c \in MethodSlots, id \in Ids : CampaignClient_leave(c, id)
  \/ \E c \in MethodSlots, id \in Ids : CampaignClient_getParticipants(c, id)
  \/ \E c \in MethodSlots, id \in Ids, status \in StatusValues :
       CampaignClient_updateStatus(c, id, status)
  \/ \E c \in MethodSlots, id \in OptionalIds :
       NotificationClient_markAsRead(c, id)
  \/ \E c \in MethodSlots, slug \in Ids, data \in PartialUpdates :
       StudioClient_update(c, slug, data)
  \/ \E c \in MethodSlots, data \in PartialUpdates : UserClient_updateMe(c, data)
  \/ \E c \in MethodSlots, data \in PartialUpdates :
       UserClient_updateProfile(c, data)
  \/ \E c \in MethodSlots, id \in Ids, status \in StatusValues,
        reason \in OptionalValues : ClipClient_updateStatus(c, id, status, reason)
  \/ \E c \in MethodSlots, slug \in Ids, review \in OptionalValues :
       StudioClient_rate(c, slug, "5", review)
  \/ \E c \in MethodSlots, id \in Ids, notes \in OptionalValues :
       DisputeClient_resolve(c, id, "refund", notes)
  \/ \E c \in MethodSlots, limit \in {Undefined, "10"} :
       UserClient_search(c, "editor", limit)
  \/ \E c \in MethodSlots, filters \in Filters : ClipClient_list(c, filters)
  \/ \E c \in MethodSlots, filters \in Filters : StudioClient_list(c, filters)
  \/ \E c \in MethodSlots, params \in Filters : NotificationClient_list(c, params)
  \/ \E c \in MethodSlots, params \in Filters :
       BalanceClient_getTransactions(c, params)
  \/ \E c \in MethodSlots, filters \in Filters : DisputeClient_list(c, filters)
  \/ \E c \in MethodSlots, slug \in Ids : StudioClient_remove(c, slug)
  \/ \E c \in MethodSlots, slug \in Ids : StudioClient_leave(c, slug)
  \/ \E c \in MethodSlots : NotificationClient_markAllAsRead(c)
  \/ \E c \in MethodSlots, id \in Ids : NotificationClient_remove(c, id)
  \/ \E c \in MethodSlots : UserClient_getMe(c)
  \/ \E c \in MethodSlots, id \in PathIds : UserClient_getById(c, id)
  \/ \E c \in MethodSlots, slug \in PathIds : StudioClient_getBySlug(c, slug)
  \/ \E c \in MethodSlots : StudioClient_getInvites(c)
  \/ \E c \in CallIds : InvokeGetter(c)
  \/ \E c \in CallIds : GetterResolve(c)
  \/ \E c \in CallIds, error \in GetterRejections : GetterReject(c, error)
  \/ \E c \in CallIds : Transmit(c)
  \/ \E c \in CallIds, error \in LocalFailures : DispatchFail(c, error)
  \/ \E c \in CallIds, body \in MethodResponseBodies : Respond(c, body)
  \/ \E c \in CallIds, error \in WireFailures : Fail(c, error)
  \/ \E c \in CallIds : Timeout(c)
  \/ \E c \in CallIds : Return(c)

SpecMethods == InitMethods /\ [][NextMethods]_vars

\* --------------------------------------------------------- ClipdeckClient
\* the order in which the constructor creates the resource clients
ClientFields ==
  <<"campaigns", "clips", "users", "notifications", "balance", "studios",
    "disputes">>

Position(name) ==
  CHOOSE i \in 1..Len(ClientFields) : ClientFields[i] = name

\* a resource client that uses the first client's pipeline
NewClientShared(class, instance, cfg) ==
  [class |-> class, instance |-> 1, http |-> Constructor(cfg)]

\* new XClient(config): BaseClient's constructor calls axios.create, which
\* gives the client a transport instance of its own (instance: which call
\* of axios.create made it)
NewClient(class, instance, cfg) ==
  [class |-> class, instance |-> instance, http |-> Constructor(cfg)]

\* new ClipdeckClient(config); the calls that follow are made on
\* client.campaigns, whose pipeline is http
ClipdeckClient_constructor(cfg) ==
  /\ clients = NoClients
  /\ http = NotConstructed
  /\ config' = cfg
  /\ clients' = [name \in DOMAIN ClientClasses |->
                   NewClient(ClientClasses[name], Position(name), cfg)]
  /\ http' = clients'["campaigns"].http
  /\ UNCHANGED <<invocation, token, calls, started, getterInvocations,
               requestsSent, failedBeforeSend, caught, apiError>>

\* a configuration change that reaches the pipelines already constructed
MutateConfigLive(cfg) ==
  /\ http # NotConstructed
  /\ cfg # config
  /\ config' = cfg
  /\ http' = Constructor(cfg)
  /\ UNCHANGED <<clients, invocation, token, calls, started, getterInvocations,
               requestsSent, failedBeforeSend, caught, apiError>>

\* the caller assigns to fields of the configuration object it passed in;
\* the constructor has copied baseURL and timeout into axios.create's
\* argument and bound getToken to a constant of its own
MutateConfig(cfg) ==
  /\ http # NotConstructed
  /\ cfg # config
  /\ config' = cfg
  /\ UNCHANGED <<clients, invocation, http, token, calls, started,
               getterInvocations, requestsSent, failedBeforeSend, caught,
               apiError>>

InitClient ==
  /\ clients = NoClients
  /\ config = NoConfig
  /\ http = NotConstructed
  /\ invocation = [c \in CallIds |-> NoInvocation]
  /\ token = "tok_a"
  /\ calls = [c \in CallIds |-> IdleCall]
  /\ started = 0
  /\ getterInvocations = 0
  /\ requestsSent = 0
  /\ failedBeforeSend = 0
  /\ caught = NoCaught
  /\ apiError = NoError

NextClient ==
  \/ \E cfg \in ConstructInputs : ClipdeckClient_constructor(cfg)
  \/ \E cfg \in ConstructInputs : MutateConfig(cfg)
  \/ \E c \in MethodSlots, filters \in Filters : CampaignClient_list(c, filters)
  \/ \E c \in MethodSlots, id \in Ids : CampaignClient_getById(c, id)
  \/ \E c \in CallIds : InvokeGetter(c)
  \/ \E c \in CallIds : GetterResolve(c)
  \/ \E c \in CallIds : Transmit(c)
  \/ \E c \in CallIds, body \in ResponseBodies : Respond(c, body)
  \/ \E c \in CallIds, error \in WireFailures : Fail(c, error)
  \/ \E c \in CallIds : Return(c)

SpecClient == InitClient /\ [][NextClient]_vars

\* ------------------------------------------------- calls under fairness
\* the pipeline with a token store that does not change
InitLive ==
  /\ clients = NoClients
  /\ config \in ConfigInputs
  /\ http = Constructor(config)
  /\ invocation = [c \in CallIds |-> NoInvocation]
  /\ token = "tok_a"
  /\ calls = [c \in CallIds |-> IdleCall]
  /\ started = 0
  /\ getterInvocations = 0
  /\ requestsSent = 0
  /\ failedBeforeSend = 0
  /\ caught = NoCaught
  /\ apiError = NoError

NextLive ==
  \/ \E c \in CallIds, url \in Urls :
       get(c, url, UndefinedConfig) /\ UNCHANGED invocation
  \/ \E c \in CallIds : InvokeGetter(c)
  \/ \E c \in CallIds : GetterResolve(c)
  \/ \E c \in CallIds, error \in GetterRejections : GetterReject(c, error)
  \/ \E c \in CallIds : Transmit(c)
  \/ \E c \in CallIds, error \in LocalFailures : DispatchFail(c, error)
  \/ \E c \in CallIds, body \in ResponseBodies : Respond(c, body)
  \/ \E c \in CallIds, error \in WireFailures : Fail(c, error)
  \/ \E c \in CallIds : Timeout(c)
  \/ \E c \in CallIds : Return(c)

\* the interceptor runs once the call is made; the token-getter eventually
\* returns; the transport eventually sends the request or fails, and
\* eventually delivers a response, a failure or a timeout
Fairness ==
  \A c \in CallIds :
    /\ WF_vars(InvokeGetter(c))
    /\ WF_vars(GetterResolve(c)
               \/ \E error \in GetterRejections : GetterReject(c, error))
    /\ WF_vars(Transmit(c) \/ \E error \in LocalFailures : DispatchFail(c, error))
    /\ WF_vars(\/ \E body \in ResponseBodies : Respond(c, body)
               \/ \E error \in WireFailures : Fail(c, error)
               \/ Timeout(c))

SpecLive == InitLive /\ [][NextLive]_vars /\ Fairness

\* ------------------------------------------- handleApiError on its own
\* a catch block hands one value to handleApiError
InitClassify ==
  /\ clients = NoClients
  /\ config = [baseURL |-> "https://api.clipdeck.io", getToken |-> FALSE,
               timeout |-> NoTimeout]
  /\ http = Constructor(config)
  /\ invocation = [c \in CallIds |-> NoInvocation]
  /\ token = Null
  /\ calls = [c \in CallIds |-> IdleCall]
  /\ started = 0
  /\ getterInvocations = 0
  /\ requestsSent = 0
  /\ failedBeforeSend = 0
  /\ caught \in CaughtValues
  /\ apiError = NoError

Classify ==
  /\ apiError = NoError
  /\ apiError' = handleApiError(caught)
  /\ UNCHANGED <<clients, config, invocation, caught, http, token, calls, started,
               getterInvocations, requestsSent, failedBeforeSend>>

NextClassify == Classify

SpecClassify == InitClassify /\ [][NextClassify]_vars

\* =================================================================== claims

Settled(c) == calls[c].pc \in {"resolved", "rejected"}

Transmitted(c) == calls[c].sent > 0

\* what the claims call a transport error with a response / with a request
HasResponse(v) == v.isAxiosError /\ v.response

HasRequest(v) == v.isAxiosError /\ v.request

Classified == apiError # NoError

KnownCodes ==
  {UNKNOWN_ERROR, NETWORK_ERROR, CLIENT_ERROR, "NOT_FOUND", "VALIDATION_ERROR"}

\* C1: every failed call reaches its caller as an ApiError (code, message,
\* status, optional details), whatever the failure was: an error response, a
\* request without response, a local error, a rejected token-getter; a call
\* that did not fail carries no error.
C1_FailuresNormalized ==
  \A c \in CallIds :
    /\ calls[c].pc = "rejected" =>
         /\ calls[c].error.kind = "ApiError"
         /\ calls[c].error.code \in KnownCodes
         /\ calls[c].error.message # Undefined
         /\ calls[c].error.status \in Statuses \cup {0}
         /\ calls[c].result = NoBody
    /\ calls[c].pc # "rejected" => calls[c].error = NoError

\* one call failed with an error response, another without any response
C1_Witness ==
  \E c, d \in CallIds :
    /\ calls[c].pc = "rejected" /\ calls[c].error.status = 404
    /\ calls[d].pc = "rejected" /\ calls[d].error.code = NETWORK_ERROR

\* C2: handleApiError is total and never throws: for every caught value the
\* result is one ApiError, the one built by one of the four branches.
C2_Total ==
  Classified =>
    /\ apiError.kind = "ApiError"
    /\ apiError.code \in KnownCodes
    /\ apiError.message # Undefined
    /\ apiError.status \in Statuses \cup {0}
    /\ \/ apiError.status = caught.status /\ HasResponse(caught)
       \/ apiError.status = 0 /\ apiError.code = NETWORK_ERROR
       \/ apiError.status = 0 /\ apiError.code = CLIENT_ERROR
       \/ apiError.status = 0 /\ apiError.code = UNKNOWN_ERROR

\* null, which is no object at all, was classified
C2_Witness ==
  Classified /\ caught.kind = "null" /\ apiError.code = UNKNOWN_ERROR

\* C3: the first matching branch wins, in the order response, request without
\* response, Error, fallback; a value with a response is classified by its
\* response also when it carries a request or is an Error too.
C3_Precedence ==
  Classified =>
    /\ HasResponse(caught) =>
         apiError.status = caught.status /\ apiError.status # 0
    /\ (~HasResponse(caught) /\ HasRequest(caught)) =>
         apiError.code = NETWORK_ERROR /\ apiError.status = 0
    /\ (~HasResponse(caught) /\ ~HasRequest(caught) /\ caught.instanceOfError) =>
         apiError.code = CLIENT_ERROR /\ apiError.status = 0
    /\ (~HasResponse(caught) /\ ~HasRequest(caught) /\ ~caught.instanceOfError) =>
         apiError.code = UNKNOWN_ERROR /\ apiError.status = 0

\* a value that is all three at once went to the response branch
C3_Witness ==
  /\ Classified
  /\ HasResponse(caught) /\ HasRequest(caught) /\ caught.instanceOfError
  /\ apiError.status = 404

\* the envelope's field, absent when the body is no envelope
EnvelopeCode(v) == IF v.data = "envelope" THEN v.code ELSE Undefined

EnvelopeMessage(v) == IF v.data = "envelope" THEN v.envMessage ELSE Undefined

EnvelopeDetails(v) == IF v.data = "envelope" THEN v.details ELSE Undefined

Empty(x) == x \in {Undefined, Null, ""}

\* the message chain: the first of envelope message, transport message that
\* is not empty, else 'Unknown error'
MessageChain(v) ==
  IF ~Empty(EnvelopeMessage(v)) THEN EnvelopeMessage(v)
  ELSE IF ~Empty(v.message) THEN v.message
  ELSE UnknownErrorMessage

\* C4 as stated: with a response, status as-is, the envelope's code or
\* UNKNOWN_ERROR when the code is absent, the message chain, details as-is.
C4_AsStated ==
  (Classified /\ HasResponse(caught)) =>
    /\ apiError.status = caught.status
    /\ apiError.code = IF EnvelopeCode(caught) = Undefined
                       THEN UNKNOWN_ERROR ELSE EnvelopeCode(caught)
    /\ apiError.message = MessageChain(caught)
    /\ apiError.details = EnvelopeDetails(caught)

\* C4 amended: with a response, status as-is, the envelope's code or
\* UNKNOWN_ERROR when the code is absent or empty, the message chain (an
\* empty message counts as absent), details as-is.
C4_ResponseBranch ==
  (Classified /\ HasResponse(caught)) =>
    /\ apiError.status = caught.status
    /\ apiError.code = IF Empty(EnvelopeCode(caught))
                       THEN UNKNOWN_ERROR ELSE EnvelopeCode(caught)
    /\ apiError.message = MessageChain(caught)
    /\ apiError.details = EnvelopeDetails(caught)

\* a response without envelope message fell back to the transport's message
C4_Witness ==
  /\ Classified /\ HasResponse(caught)
  /\ caught.data = "empty" /\ caught.message = "Request failed"
  /\ apiError.code = UNKNOWN_ERROR /\ apiError.message = "Request failed"
  /\ apiError.status = 500

\* C5: a request without response gives NETWORK_ERROR, status 0, the fixed
\* message and no details, whatever the transport's message.
C5_NetworkBranch ==
  (Classified /\ ~HasResponse(caught) /\ HasRequest(caught)) =>
    apiError = [kind |-> "ApiError", code |-> NETWORK_ERROR,
                message |-> NetworkErrorMessage, status |-> 0,
                details |-> Undefined]

C5_Witness ==
  /\ Classified /\ ~HasResponse(caught) /\ HasRequest(caught)
  /\ caught.message = "Request failed"
  /\ apiError.code = NETWORK_ERROR

\* C6: an Error with neither response nor sent request gives CLIENT_ERROR,
\* status 0 and the Error's own message.
C6_ClientBranch ==
  (Classified /\ ~HasResponse(caught) /\ ~HasRequest(caught)
     /\ caught.instanceOfError) =>
    /\ apiError.code = CLIENT_ERROR
    /\ apiError.status = 0
    /\ apiError.message = caught.message

C6_Witness ==
  /\ Classified /\ ~caught.isAxiosError /\ caught.instanceOfError
  /\ caught.message = "Request failed"
  /\ apiError.code = CLIENT_ERROR /\ apiError.message = "Request failed"

\* C7: a value that is no recognizable error (a string, null, any object
\* that is neither a transport error with response or request nor an Error)
\* gives UNKNOWN_ERROR, status 0 and the fixed message.
C7_FallbackBranch ==
  (Classified /\ ~HasResponse(caught) /\ ~HasRequest(caught)
     /\ ~caught.instanceOfError) =>
    /\ apiError.code = UNKNOWN_ERROR
    /\ apiError.status = 0
    /\ apiError.message = UnknownValueMessage

C7_Witness ==
  /\ Classified /\ caught.kind = "string"
  /\ apiError.code = UNKNOWN_ERROR /\ apiError.message = UnknownValueMessage

\* the getter has yielded for call c and the request was prepared with it
GetterDone(c) == calls[c].token # Undefined

C9_NoGetterNoHeader ==
  ~http.getToken =>
    /\ http.requestInterceptors = 0
    /\ getterInvocations = 0
    /\ \A c \in CallIds :
         calls[c].authorization = Undefined /\ calls[c].getterCount = 0

C9_Witness ==
  /\ ~http.getToken
  /\ \E c \in CallIds : calls[c].pc = "inflight" /\ Transmitted(c)
  /\ requestsSent = 2

Quiescent == \A c \in CallIds : calls[c].pc = "idle" \/ Settled(c)

\* C10 as stated: on a pipeline with a token-getter, once every call has
\* completed, the getter was invoked as often as requests were sent.
C10_AsStated ==
  (http.getToken /\ Quiescent) => getterInvocations = requestsSent

BeforeSend == {c \in CallIds : calls[c].pc \in {"awaitToken", "dispatch"}}

\* C10 amended: the getter is invoked exactly once for each call, before its
\* request, and the request's header comes from that invocation's result:
\* every transmitted request had one invocation of its own, so the
\* invocations are the requests sent plus the calls not yet transmitted
\* plus the calls that failed before transmission; the result the getter
\* yields for a call is what the token store holds at that moment.
C10_OncePerRequest ==
  /\ [](http.getToken =>
         /\ \A c \in CallIds :
              /\ calls[c].getterCount <= 1 /\ calls[c].sent <= 1
              /\ Transmitted(c) => (calls[c].getterCount = 1 /\ GetterDone(c))
              /\ GetterDone(c) => calls[c].getterCount = 1
         /\ getterInvocations =
              requestsSent + Cardinality(BeforeSend) + failedBeforeSend)
  /\ [][\A c \in CallIds :
          (calls[c].pc = "awaitToken" /\ calls'[c].pc = "dispatch") =>
            calls'[c].token = token]_vars

\* two requests were sent with two different tokens, the second one after
\* the token store changed
C10_Witness ==
  /\ http.getToken /\ Quiescent
  /\ getterInvocations = 2 /\ requestsSent = 2
  /\ \E c, d \in CallIds :
       /\ calls[c].authorization = "Bearer tok_a"
       /\ calls[d].authorization = "Bearer tok_b"

\* ---------------------------------------------------------------- C11

\* C11: on a pipeline with a token-getter, a request is on the wire only
\* after its getter was invoked (once) and has completed: no call is ever
\* transmitted while its getter is pending, the step that transmits a call
\* starts from a state where the getter's result is there, and the header
\* the request carries is the one set from that result.
C11_GetterBeforeTransmit ==
  /\ [](http.getToken =>
         \A c \in CallIds :
           /\ calls[c].pc = "awaitToken" => ~Transmitted(c)
           /\ Transmitted(c) =>
                /\ GetterDone(c)
                /\ calls[c].getterCount = 1
                /\ calls[c].authorization =
                     AuthHeader(Undefined, calls[c].token))
  /\ [][http.getToken =>
         \A c \in CallIds :
           calls'[c].sent > calls[c].sent =>
             /\ GetterDone(c)
             /\ calls'[c].token = calls[c].token
             /\ calls'[c].authorization = calls[c].authorization]_vars

C11_Witness ==
  \E c \in CallIds :
    /\ http.getToken
    /\ calls[c].pc = "inflight"
    /\ calls[c].token = "tok_a"
    /\ calls[c].authorization = "Bearer tok_a"

\* ---------------------------------------------------------------- C15

\* C15: a request for which no response arrived within the timeout has
\* failed to the caller with a normalized error of code NETWORK_ERROR and
\* status 0.
C15_TimeoutIsNetworkError ==
  \A c \in CallIds :
    calls[c].timedOut =>
      /\ calls[c].pc = "rejected"
      /\ calls[c].error # NoError
      /\ calls[c].error.kind = "ApiError"
      /\ calls[c].error.code = NETWORK_ERROR
      /\ calls[c].error.status = 0

C15_Witness ==
  \E c \in CallIds :
    /\ calls[c].timedOut
    /\ calls[c].sent = 1
    /\ calls[c].error.code = NETWORK_ERROR

\* ---------------------------------------------------------------- C12

\* the transport method each verb operation calls
TransportVerb ==
  [get |-> "GET", post |-> "POST", put |-> "PUT", patch |-> "PATCH",
   delete |-> "DELETE"]

\* C12: for each verb operation, the transport is handed exactly the path,
\* body and per-request options the operation was called with, under the
\* operation's own verb; when the transport answers with a successful
\* response, the operation returns exactly the decoded body of that response.
C12_PassThrough ==
  \A c \in CallIds :
    /\ calls[c].pc # "idle" =>
         /\ calls[c].verb = TransportVerb[calls[c].op]
         /\ calls[c].url = calls[c].argUrl
         /\ calls[c].data = calls[c].argData
         /\ calls[c].config = calls[c].argConfig
    /\ calls[c].pc = "resolved" =>
         /\ calls[c].response.status = 200
         /\ calls[c].result = calls[c].response.data

C12_Witness ==
  \E c \in CallIds :
    /\ calls[c].pc = "resolved"
    /\ calls[c].op = "get"
    /\ calls[c].config = ParamsConfig(Object("page" :> "1"))
    /\ calls[c].result = RecordBody("data_2")

\* ---------------------------------------------------------------- C13

Invoked(c) == invocation[c].method # "none"

\* C13: each call of a resource-client method hands exactly one request to
\* the transport, whatever its arguments and whatever the calls before it
\* did: from the moment the method is called until its caller has the
\* outcome, the transport was asked once for it (never zero times, never a
\* second time after a failure), the request went on the wire at most once,
\* and every call that got a response or timed out went on the wire exactly
\* once.
C13_ExactlyOneRequest ==
  \A c \in CallIds :
    /\ Invoked(c) <=> calls[c].pc # "idle"
    /\ Invoked(c) =>
         /\ calls[c].issued = 1
         /\ calls[c].sent <= 1
         /\ (\/ calls[c].pc \in {"inflight", "resolved"}
             \/ calls[c].timedOut
             \/ (calls[c].error.status # 0 /\ ~calls[c].getterRejected))
            => calls[c].sent = 1

C13_Witness ==
  \E c \in CallIds :
    /\ started = 2
    /\ invocation[c].method = "campaigns.getById"
    /\ calls[c].pc = "rejected"
    /\ calls[c].error.status = 404
    /\ calls[c].issued = 1
    /\ calls[c].sent = 1

\* ---------------------------------------------------------------- C14

\* C14 as stated: the timeout of a constructed pipeline is the configured
\* timeout whenever the configuration supplies one, whatever its value, and
\* 10000 only when the configuration supplies none.
C14_AsStated ==
  http # NotConstructed =>
    http.timeout =
      IF config.timeout = NoTimeout THEN DefaultTimeout ELSE config.timeout

\* ---------------------------------------------------------------- C16

\* C16 as stated: from a configuration without a base address no pipeline
\* is constructed.
C16_AsStated == config.baseURL = Undefined => http = NotConstructed

\* ---------------------------------------------------------------- C17

\* C17 as stated: markAsRead called with an identifier issues
\* PATCH /notifications/{id}/read, called with no identifier it issues
\* PATCH /notifications/read.
C17_AsStated ==
  \A c \in CallIds :
    invocation[c].method = "notifications.markAsRead" =>
      /\ calls[c].verb = "PATCH"
      /\ calls[c].url =
           IF invocation[c].id # Undefined
           THEN "/notifications/" \o invocation[c].id \o "/read"
           ELSE "/notifications/read"

\* ---------------------------------------------------------------- C18

PartialUpdateMethods ==
  {"campaigns.update", "studios.update", "users.updateMe",
   "users.updateProfile"}

\* C18: a partial-update method called with a subset of the fields hands
\* the transport the object it was given, and the body that goes on the
\* wire has exactly the supplied fields with their values: no further
\* field, no null in place of a field that was not supplied.
C18_OnlySuppliedFields ==
  \A c \in CallIds :
    invocation[c].method \in PartialUpdateMethods =>
      /\ calls[c].data = invocation[c].data
      /\ Transmitted(c) =>
           /\ calls[c].wireBody.defined
           /\ DOMAIN calls[c].wireBody.fields = DOMAIN invocation[c].data.fields
           /\ \A k \in DOMAIN invocation[c].data.fields :
                calls[c].wireBody.fields[k] = invocation[c].data.fields[k]

C18_Witness ==
  \E c \in CallIds :
    /\ invocation[c].method = "campaigns.update"
    /\ invocation[c].id = "camp_1"
    /\ invocation[c].data = Object("title" :> "X")
    /\ Transmitted(c)
    /\ calls[c].wireBody = Object("title" :> "X")

\* ---------------------------------------------------------------- C19

\* the optional argument's field of each method
OptionalField ==
  [m \in {"clips.updateStatus", "studios.rate", "disputes.resolve",
          "users.search"} |->
     CASE m = "clips.updateStatus" -> "reason"
       [] m = "studios.rate" -> "review"
       [] m = "disputes.resolve" -> "notes"
       [] m = "users.search" -> "limit"]

\* what goes out for a call: the query of users.search, the body otherwise
Outgoing(c) ==
  IF invocation[c].method = "users.search"
  THEN calls[c].wireQuery ELSE calls[c].wireBody

\* C19: for clips.updateStatus, studios.rate, disputes.resolve and
\* users.search, when the optional argument is not supplied, the body (the
\* query for users.search) that goes on the wire has no such field at all,
\* neither null nor empty; when it is supplied, the field is there with the
\* supplied value; the required field is there either way.
C19_OptionalOmitted ==
  \A c \in CallIds :
    (invocation[c].method \in DOMAIN OptionalField /\ Transmitted(c)) =>
      /\ Outgoing(c).defined
      /\ invocation[c].arg2 = Undefined =>
           OptionalField[invocation[c].method] \notin DOMAIN Outgoing(c).fields
      /\ invocation[c].arg2 # Undefined =>
           /\ OptionalField[invocation[c].method] \in DOMAIN Outgoing(c).fields
           /\ Outgoing(c).fields[OptionalField[invocation[c].method]] =
                invocation[c].arg2
      /\ Cardinality(DOMAIN Outgoing(c).fields) =
           IF invocation[c].arg2 = Undefined THEN 1 ELSE 2

C19_Witness ==
  \E c \in CallIds :
    /\ invocation[c].method = "clips.updateStatus"
    /\ invocation[c].arg2 = Undefined
    /\ Transmitted(c)
    /\ calls[c].wireBody = Object("status" :> "active")

\* ---------------------------------------------------------------- C20

\* the endpoint catalog's verb and path of each campaigns method
CampaignCatalog(method, id) ==
  CASE method = "campaigns.list" -> <<"GET", "/campaigns">>
    [] method = "campaigns.getById" -> <<"GET", "/campaigns/" \o id>>
    [] method = "campaigns.create" -> <<"POST", "/campaigns">>
    [] method = "campaigns.update" -> <<"PATCH", "/campaigns/" \o id>>
    [] method = "campaigns.join" -> <<"POST", "/campaigns/" \o id \o "/join">>
    [] method = "campaigns.leave" -> <<"POST", "/campaigns/" \o id \o "/leave">>
    [] method = "campaigns.getParticipants" ->
         <<"GET", "/campaigns/" \o id \o "/participants">>
    [] method = "campaigns.updateStatus" ->
         <<"PATCH", "/campaigns/" \o id \o "/status">>

CampaignMethods ==
  {"campaigns.list", "campaigns.getById", "campaigns.create",
   "campaigns.update", "campaigns.join", "campaigns.leave",
   "campaigns.getParticipants", "campaigns.updateStatus"}

\* C20: each campaigns method issues the verb and the path of the endpoint
\* catalog with the identifier substituted; list passes its filters as the
\* query, create and update pass their data as the body, updateStatus sends
\* the body {status}, and the other methods send no body.
C20_CampaignRoutes ==
  \A c \in CallIds :
    invocation[c].method \in CampaignMethods =>
      /\ <<calls[c].verb, calls[c].url>> =
           CampaignCatalog(invocation[c].method, invocation[c].id)
      /\ calls[c].config =
           IF invocation[c].method = "campaigns.list"
           THEN ParamsConfig(invocation[c].data) ELSE UndefinedConfig
      /\ calls[c].data =
           CASE invocation[c].method \in {"campaigns.create", "campaigns.update"}
                  -> invocation[c].data
             [] invocation[c].method = "campaigns.updateStatus"
                  -> Object("status" :> invocation[c].arg1)
             [] OTHER -> UndefinedObject

C20_Witness ==
  \E c \in CallIds :
    /\ invocation[c].method = "campaigns.updateStatus"
    /\ invocation[c].id = "camp_1"
    /\ calls[c].pc = "inflight"
    /\ calls[c].verb = "PATCH"
    /\ calls[c].url = "/campaigns/camp_1/status"
    /\ calls[c].wireBody = Object("status" :> "active")

\* ---------------------------------------------------------------- C27

\* C27 as stated: a call whose token-getter rejected was never transmitted
\* and has failed with a normalized error of status 0, CLIENT_ERROR when the
\* rejection is an Error and UNKNOWN_ERROR otherwise.
C27_AsStated ==
  \A c \in CallIds :
    calls[c].getterRejected =>
      /\ calls[c].sent = 0
      /\ calls[c].pc = "rejected"
      /\ calls[c].error.kind = "ApiError"
      /\ calls[c].error.status = 0
      /\ calls[c].error.code =
           IF calls[c].rejection.instanceOfError
           THEN CLIENT_ERROR ELSE UNKNOWN_ERROR

\* C27 amended: a call whose token-getter rejected was never transmitted and
\* has failed with a normalized error, never with the raw rejection value;
\* when the rejection is not a transport error the status is 0 and the code
\* is CLIENT_ERROR for an Error (with the Error's message) and UNKNOWN_ERROR
\* for any other value; when the rejection is itself a transport error with
\* a response (the getter's own request was refused), it is classified as
\* one and the status is that response's status.
C27_GetterFailure ==
  \A c \in CallIds :
    calls[c].getterRejected =>
      /\ calls[c].sent = 0
      /\ calls[c].pc = "rejected"
      /\ calls[c].error.kind = "ApiError"
      /\ ~calls[c].rejection.isAxiosError =>
           /\ calls[c].error.status = 0
           /\ calls[c].rejection.instanceOfError =>
                /\ calls[c].error.code = CLIENT_ERROR
                /\ calls[c].error.message = calls[c].rejection.message
           /\ ~calls[c].rejection.instanceOfError =>
                calls[c].error.code = UNKNOWN_ERROR
      /\ HasResponse(calls[c].rejection) =>
           /\ calls[c].error.status = calls[c].rejection.status
           /\ calls[c].error.code = calls[c].rejection.code

C27_Witness ==
  \E c \in CallIds :
    /\ calls[c].getterRejected
    /\ calls[c].rejection.kind = "string"
    /\ calls[c].error.code = UNKNOWN_ERROR
    /\ calls[c].sent = 0

\* ---------------------------------------------------------------- C23

\* C23: a constructed ClipdeckClient has exactly the seven resource clients
\* campaigns, clips, users, notifications, balance, studios and disputes,
\* each of its own class and each with a transport instance of its own, and
\* the seven pipelines were built from the same configuration: they have
\* the same base address, timeout and token-getter.
C23_SevenClients ==
  clients # NoClients =>
    /\ DOMAIN clients =
         {"campaigns", "clips", "users", "notifications", "balance",
          "studios", "disputes"}
    /\ Cardinality(DOMAIN clients) = 7
    /\ \A n \in DOMAIN clients : clients[n].class = ClientClasses[n]
    /\ \A m, n \in DOMAIN clients :
         /\ m # n => clients[m].class # clients[n].class
         /\ m # n => clients[m].instance # clients[n].instance
         /\ clients[m].http.baseURL = clients[n].http.baseURL
         /\ clients[m].http.timeout = clients[n].http.timeout
         /\ clients[m].http.getToken = clients[n].http.getToken
         /\ clients[m].http.requestInterceptors =
              clients[n].http.requestInterceptors

C23_Witness ==
  /\ clients # NoClients
  /\ clients["disputes"].class = "DisputeClient"
  /\ clients["disputes"].instance = 7
  /\ clients["disputes"].http.timeout = 5000
  /\ clients["campaigns"].http.timeout = 5000
  /\ clients["campaigns"].http.getToken

\* ---------------------------------------------------------------- C26

\* C26: once a pipeline is constructed, no step changes it: its base
\* address, timeout, token-getter and hooks stay what the constructor made
\* them, through every call and also when the caller assigns to fields of
\* the configuration object afterwards; the same holds for the pipelines of
\* all the resource clients.
C26_ConfigImmutable ==
  /\ [][http # NotConstructed => (http' = http /\ clients' = clients)]_vars
  /\ [](clients # NoClients => http = clients["campaigns"].http)

C26_Witness ==
  /\ http # NotConstructed
  /\ http.getToken
  /\ http.timeout = 5000
  /\ ~config.getToken
  /\ config.timeout = NoTimeout
  /\ \E c \in CallIds : calls[c].pc = "inflight" /\ calls[c].getterCount = 1

\* ---------------------------------------------------------------- C21

VoidMethods ==
  {"campaigns.leave", "studios.leave", "studios.remove",
   "notifications.markAsRead", "notifications.markAllAsRead",
   "notifications.remove"}

\* C21 as stated: a method whose catalog result is void resolves with no
\* value, whatever body the server returned.
C21_AsStated ==
  \A c \in CallIds :
    (invocation[c].method \in VoidMethods /\ calls[c].pc = "resolved") =>
      MethodResult(c) = NoBody

\* ---------------------------------------------------------------- C22

ListMethods ==
  {"campaigns.list", "clips.list", "notifications.list",
   "balance.getTransactions", "studios.list", "disputes.list"}

\* C22: a list method resolves with the body of the server's response as
\* it was sent, field by field: data, total, page, limit and totalPages are
\* those of the response, also when totalPages is not ceil(total/limit).
C22_EnvelopeVerbatim ==
  \A c \in CallIds :
    (invocation[c].method \in ListMethods /\ calls[c].pc = "resolved") =>
      /\ MethodResult(c) = calls[c].response.data
      /\ MethodResult(c).data = calls[c].response.data.data
      /\ MethodResult(c).total = calls[c].response.data.total
      /\ MethodResult(c).page = calls[c].response.data.page
      /\ MethodResult(c).limit = calls[c].response.data.limit
      /\ MethodResult(c).totalPages = calls[c].response.data.totalPages

C22_Witness ==
  \E c \in CallIds :
    /\ invocation[c].method = "disputes.list"
    /\ calls[c].pc = "resolved"
    /\ calls[c].response.data = Paginated("items_1", 41, 1, 20, 7)
    /\ MethodResult(c).totalPages = 7
    /\ MethodResult(c).totalPages # (41 + 20 - 1) \div 20

\* ---------------------------------------------------------------- C29

\* what the transport was handed for a call
Issued(c) ==
  <<calls[c].verb, calls[c].url, calls[c].data, calls[c].config>>

\* C29: users.getById(s) requests GET /users/s and studios.getBySlug(s)
\* requests GET /studios/s for every identifier s, the identifier put into
\* the path as it is; so users.getById('me') is handed to the transport as
\* users.getMe() is, and studios.getBySlug('invites') as
\* studios.getInvites() is.
C29_PathVerbatim ==
  \A c \in CallIds :
    /\ invocation[c].method = "users.getById" =>
         Issued(c) = <<"GET", "/users/" \o invocation[c].id, UndefinedObject,
                       UndefinedConfig>>
    /\ invocation[c].method = "studios.getBySlug" =>
         Issued(c) = <<"GET", "/studios/" \o invocation[c].id, UndefinedObject,
                       UndefinedConfig>>
    /\ (\/ invocation[c].method = "users.getMe"
        \/ invocation[c].method = "users.getById" /\ invocation[c].id = "me")
         => Issued(c) = <<"GET", "/users/me", UndefinedObject, UndefinedConfig>>
    /\ (\/ invocation[c].method = "studios.getInvites"
        \/ invocation[c].method = "studios.getBySlug"
             /\ invocation[c].id = "invites")
         => Issued(c) =
              <<"GET", "/studios/invites", UndefinedObject, UndefinedConfig>>

C29_Witness ==
  \E c \in CallIds :
    /\ invocation[c].method = "users.getById"
    /\ invocation[c].id = "a/b"
    /\ calls[c].pc = "inflight"
    /\ calls[c].url = "/users/a/b"

\* ---------------------------------------------------------------- C28

\* C28: while the token changes and several calls are under way, every
\* request that is ready to go out or has gone out carries the header made
\* from the token its own getter invocation returned, and no step of
\* another call or of the token store changes the token or the header a
\* call has obtained.
C28_OwnToken ==
  /\ [](http.getToken =>
         \A c \in CallIds :
           calls[c].pc \in {"dispatch", "inflight", "resolved"} =>
             calls[c].authorization = AuthHeader(Undefined, calls[c].token))
  /\ [][\A c \in CallIds :
         (GetterDone(c) /\ calls'[c].pc # "idle") =>
           /\ calls'[c].token = calls[c].token
           /\ calls'[c].authorization = calls[c].authorization]_vars

C28_Witness ==
  /\ http.getToken
  /\ calls["c1"].pc = "inflight"
  /\ calls["c2"].pc = "inflight"
  /\ calls["c1"].authorization = "Bearer tok_b"
  /\ calls["c2"].authorization = "Bearer tok_a"
  /\ token = Null

\* ---------------------------------------------------------------- C24

\* C24: with several calls under way, no call waits for another: whatever
\* the other calls are doing, a call that awaits its token can get it, a
\* call ready to go out can be transmitted, and a call in flight can get
\* its response or its failure, so responses may arrive in any order; and
\* every step changes one call at most, so a call's path, body, headers and
\* outcome are never changed by a step of another call.
C24_Independent ==
  /\ [](\A c \in CallIds :
         /\ calls[c].pc = "hook" => ENABLED InvokeGetter(c)
         /\ calls[c].pc = "awaitToken" => ENABLED GetterResolve(c)
         /\ calls[c].pc = "dispatch" => ENABLED Transmit(c)
         /\ calls[c].pc = "inflight" =>
              /\ \A body \in ResponseBodies : ENABLED Respond(c, body)
              /\ \A error \in WireFailures : ENABLED Fail(c, error))
  /\ [][\A c, d \in CallIds :
         (c # d /\ calls'[c] # calls[c]) => calls'[d] = calls[d]]_vars

C24_Witness ==
  /\ calls["c1"].pc = "inflight"
  /\ calls["c1"].url = "/campaigns"
  /\ calls["c2"].pc = "resolved"
  /\ calls["c2"].url = "/campaigns/camp_1"
  /\ calls["c2"].result = RecordBody("data_2")
  /\ requestsSent = 2

\* ---------------------------------------------------------------- C25

\* C25: the pipeline keeps nothing between calls. Whatever calls came
\* before, successful or failed, a call is handed to the transport once,
\* invokes the getter once if there is one, carries the header of its own
\* token, and ends with the body of its own response or with a normalized
\* error; a free slot can always start a call; no step changes the
\* pipeline, and a call whose outcome was taken leaves nothing behind.
C25_Stateless ==
  /\ [](\A c \in CallIds :
         /\ calls[c].pc # "idle" =>
              /\ calls[c].issued = 1
              /\ calls[c].sent <= 1
              /\ calls[c].pc \in {"inflight", "resolved"} => calls[c].sent = 1
              /\ calls[c].pc \in {"hook", "awaitToken", "dispatch"} =>
                   calls[c].sent = 0
              /\ calls[c].pc = "hook" => http.getToken
              /\ calls[c].getterCount =
                   IF http.getToken /\ calls[c].pc # "hook" THEN 1 ELSE 0
              /\ calls[c].authorization =
                   IF GetterDone(c)
                   THEN AuthHeader(Undefined, calls[c].token) ELSE Undefined
              /\ calls[c].pc = "resolved" =>
                   /\ calls[c].result = calls[c].response.data
                   /\ calls[c].error = NoError
              /\ calls[c].pc = "rejected" =>
                   /\ calls[c].result = NoBody
                   /\ calls[c].error.kind = "ApiError"
         /\ (calls[c].pc = "idle" /\ started < MaxCalls) =>
              \A url \in Urls :
                ENABLED (get(c, url, UndefinedConfig) /\ UNCHANGED invocation))
  /\ [][/\ http' = http
        /\ \A c \in CallIds :
             (Settled(c) /\ calls'[c] # calls[c]) => calls'[c] = IdleCall]_vars

C25_Witness ==
  /\ started = 2
  /\ failedBeforeSend = 1
  /\ requestsSent = 1
  /\ \E c \in CallIds :
       /\ calls[c].pc = "resolved"
       /\ calls[c].issued = 1
       /\ calls[c].authorization = "Bearer tok_a"

\* ---------------------------------------------------------------- C30

Pending(c) == calls[c].pc \in {"hook", "awaitToken", "dispatch", "inflight"}

\* C30: provided the token-getter eventually returns and the transport
\* eventually delivers a response, a failure or a timeout, every call that
\* was made eventually completes, with the response body or with a
\* normalized error. The timeout does not run while the call waits for the
\* token-getter: no timeout can happen there, and only the getter's own
\* completion takes the call out of that wait, so without it the call
\* stays pending.
C30_Terminates ==
  /\ \A c \in CallIds :
       Pending(c) ~>
         (\/ calls[c].pc = "resolved" /\ calls[c].result = calls[c].response.data
          \/ calls[c].pc = "rejected" /\ calls[c].error.kind = "ApiError")
  /\ [](\A c \in CallIds :
         calls[c].pc \in {"hook", "awaitToken"} => ~ENABLED Timeout(c))
  /\ [][\A c \in CallIds :
         (calls[c].pc = "awaitToken" /\ calls'[c].pc # "awaitToken") =>
           /\ ~calls'[c].timedOut
           /\ calls'[c].token # Undefined \/ calls'[c].getterRejected]_vars

C30_Witness ==
  /\ http.getToken
  /\ calls["c1"].pc = "rejected"
  /\ calls["c1"].timedOut
  /\ calls["c2"].pc = "awaitToken"
  /\ calls["c2"].getterCount = 1

====
